---- MODULE Spec2Model ----
(***************************************************************************)
(* A model of tron's tronstore supervisor, StoreProcessProtocol            *)
(* (src/tron/serialize/runstate/tronstore/process.py).                     *)
(*                                                                         *)
(* The supervisor owns one worker process (tronstore) and one pipe to it.  *)
(* Each method of the class is translated statement by statement: a        *)
(* calling thread has a position pc[t] in the method it runs, and one      *)
(* action moves it over one statement.  The worker runs beside the         *)
(* callers: it reads requests from the pipe, answers them, and may exit    *)
(* at any moment.  Time passes only while a caller blocks in pipe.poll().  *)
(*                                                                         *)
(* Channel semantics: the parent keeps the child's end of the pipe open    *)
(* (multiprocessing.Process holds its args), so a write to the pipe of a   *)
(* dead worker is buffered and a poll on it times out.                     *)
(***************************************************************************)
EXTENDS Integers, Sequences, FiniteSets, TLC

(***************************************************************************)
(* Program constants and bounds of the model                               *)
(***************************************************************************)

\* StoreProcessProtocol.SHUTDOWN_TIMEOUT and POLL_TIMEOUT, in seconds.
SHUTDOWN_TIMEOUT == 100
POLL_TIMEOUT == 10

\* Correlation ids a caller may put in a request: 1..MaxId.
MaxId == 2
\* Configs are numbered 1..MaxConfig.
MaxConfig == 2
\* Calling threads are numbered 1..NumThreads.
NumThreads == 2
\* Requests written and not yet read by the worker (per pipe), and
\* responses written by the worker and not yet received (per pipe).  The
\* supervisor sees neither count: it sees a response when it receives it,
\* and a worker that reads or answers later than it could have is a worker
\* all the same.
MaxRequests == 1
MaxResponses == 1
\* A blocking poll is observed at TicksPerPoll instants of its timeout.
TicksPerPoll == 2

Ids == 1..MaxId
Configs == 1..MaxConfig
Threads == 1..NumThreads
\* The thread that owns the supervisor (trond's main thread).
MainThread == CHOOSE t \in Threads : \A u \in Threads : t <= u

(***************************************************************************)
(* Messages                                                                *)
(***************************************************************************)

\* A StoreRequest: its id and what it asks for.  The supervisor never reads
\* the command; the worker tells a shutdown request from every other one
\* (a config request is one more request to answer).
Commands == {"store", "shutdown"}
Request(id, cmd) == [id |-> id, cmd |-> cmd]
NoRequest == [id |-> 0, cmd |-> "none"]

\* A StoreResponse (id, success, data).  src is not a field of the program's
\* response: it records who built it, the worker or response_factory.build
\* in the supervisor.
Response(id, success, data, src) ==
    [id |-> id, success |-> success, data |-> data, src |-> src]
\* Python's None where a response is expected.
None == [id |-> 0, success |-> FALSE, data |-> "", src |-> "none"]

\* response_factory.build(False, request.id, ''): the synthetic failure.
build(success, id, data) == Response(id, success, data, "local")

\* What tronstore answers to a request: the same id, success or not.
WorkerResponse(req, success) ==
    Response(req.id, success, IF success THEN "data" ELSE "", "worker")

VARIABLES
    is_shutdown,         \* self.is_shutdown
    config,              \* self.config
    process,             \* self.process: [alive, config]
    pipe,                \* self.pipe: [closed, requests, responses]
    orphaned_responses,  \* self.orphaned_responses: id -> response or None
    pending,             \* the worker: requests read and not yet answered
    pc,                  \* per thread: the statement it is at
    op,                  \* per thread: the method it was called with
    request,             \* per thread: the method's request argument
    new_config,          \* per thread: update_config's new_config argument
    response,            \* per thread: the local variable response
    result,              \* per thread: the value returned
    raised,              \* per thread: the exception that left the method
    waited,              \* per thread: seconds spent in the current pipe.poll
    elapsed,             \* per thread: seconds spent in pipe.poll in this call
    io,                  \* per thread: what this call did, in order
    context,             \* command_context.py: the lookup in progress
    migration            \* contrib/migration_script.py: the run of main()

shared == <<is_shutdown, config, process, pipe, orphaned_responses, pending>>
locals == <<pc, op, request, new_config, response, result, raised, waited,
            elapsed, io>>
vars == <<is_shutdown, config, process, pipe, orphaned_responses, pending,
          pc, op, request, new_config, response, result, raised, waited,
          elapsed, io, context, migration>>

\* The state of the repository's other programs, which the store process
\* protocol has no part in.
elsewhere == <<context, migration>>

\* Pipe(): a fresh, open, empty channel.
Pipe == [closed |-> FALSE, requests |-> <<>>, responses |-> <<>>]

\* id in self.orphaned_responses
HasOrphan(id) == orphaned_responses[id] # None

\* The next statement of thread t is s.
At(t, s) == pc[t] = s

\* Thread t moves to statement s and records the effects es of this one.
Goto(t, s, es) ==
    /\ pc' = [pc EXCEPT ![t] = s]
    /\ io' = [io EXCEPT ![t] = io[t] \o es]
    /\ UNCHANGED elsewhere

\* The method returns v / raises e.
Return(t, v, es) ==
    /\ Goto(t, "done", es)
    /\ result' = [result EXCEPT ![t] = v]
    /\ raised' = raised
Raise(t, e, es) ==
    /\ Goto(t, "done", es)
    /\ raised' = [raised EXCEPT ![t] = e]
    /\ result' = result

\* What the call of thread t has done so far: e is among its effects, and
\* how many times.
Did(t, e) == \E i \in DOMAIN io[t] : io[t][i] = e
Count(t, e) == Cardinality({i \in DOMAIN io[t] : io[t][i] = e})

\* Thread t has returned from (or raised in) method m.
Returned(t, m) == pc[t] = "done" /\ op[t] = m

(***************************************************************************)
(* command_context.py: the values a CommandContext looks in                *)
(***************************************************************************)

\* The names looked up.  "get" is also the name of a method of every dict
\* and of every CommandContext.
Names == {"name", "get"}

\* The values found: 1..MaxValue, or the bound method that getattr returns
\* for a method name.  Missing marks a key or attribute that is not there,
\* and stands for Python's None as a default.
MaxValue == 2
Values == 1..MaxValue
Missing == 0
BoundMethod == MaxValue + 1

\* The contexts chained through next.
MaxDepth == 2

\* What a lookup gives: a value, or the exception raised.
Found(v) == [raised |-> "none", value |-> v]
Raised(e) == [raised |-> e, value |-> Missing]

\* The objects passed to CommandContext: None, a dict, an object with
\* attributes and no __getitem__ (an ActionRunContext, say), a Filler, or
\* another CommandContext.
PyNone == [kind |-> "None"]
Dict(items) == [kind |-> "dict", items |-> items]
Object(attrs) == [kind |-> "object", attrs |-> attrs]
Filler == [kind |-> "Filler"]
Mappings == [Names -> Values \cup {Missing}]
EmptyDict == Dict([n \in Names |-> Missing])

\* bool(x): None, an empty dict and a Filler (lines 174-178) are false.
Truthy(x) == x.kind \notin {"None", "Filler"} /\ x # EmptyDict

\* Lines 47-54: CommandContext(base, next), with self.base = base or {} and
\* self.next = next or {}
CommandContext(base, next) ==
    [kind |-> "context",
     base |-> IF Truthy(base) THEN base ELSE EmptyDict,
     next |-> IF Truthy(next) THEN next ELSE EmptyDict]

\* No lookup is in progress.
NoLookup ==
    [pc |-> "idle", self |-> CommandContext(PyNone, PyNone),
     name |-> "name", default |-> Missing, method |-> "none",
     target |-> 1, getter |-> 1, outcome |-> Raised("none")]

(***************************************************************************)
(* contrib/migration_script.py: the jobs and what the script is told       *)
(***************************************************************************)

\* The jobs of the yaml file.
MaxJobs == 2
Jobs == 1..MaxJobs

\* job_status['status'], as far as the script tells them apart.
Statuses == {"running", "enabled"}

\* tron_client.jobs(): some of the jobs, each once, in any order.
JobsStatus ==
    {js \in UNION {[1..n -> [name : Jobs, status : Statuses]] :
                      n \in 0..MaxJobs} :
        \A i, k \in DOMAIN js : i # k => js[i].name # js[k].name}

\* main() has not been called.
NotStarted ==
    [pc |-> "idle", yaml |-> FALSE, jobs_status |-> <<>>, job |-> 1,
     is_migration_safe |-> TRUE, command_flag |-> TRUE, res |-> "",
     cron |-> "running", exitcode |-> 0, issued |-> <<>>]

(***************************************************************************)
(* __init__ (lines 33-38): the state after construction                    *)
(***************************************************************************)
Init ==
    /\ is_shutdown = FALSE
    /\ config \in Configs
    /\ process = [alive |-> TRUE, config |-> config]
    /\ pipe = Pipe
    /\ orphaned_responses = [i \in Ids |-> None]
    /\ pending = {}
    /\ pc = [t \in Threads |-> "idle"]
    /\ op = [t \in Threads |-> "none"]
    /\ request = [t \in Threads |-> NoRequest]
    /\ new_config = [t \in Threads |-> 0]
    /\ response = [t \in Threads |-> None]
    /\ result = [t \in Threads |-> None]
    /\ raised = [t \in Threads |-> "none"]
    /\ waited = [t \in Threads |-> 0]
    /\ elapsed = [t \in Threads |-> 0]
    /\ io = [t \in Threads |-> <<>>]
    /\ context = NoLookup
    /\ migration = NotStarted

(***************************************************************************)
(* The callers: trond calls a method of the supervisor                     *)
(***************************************************************************)

\* The pipe has room for the one request a call writes.  A call that finds
\* the worker dead writes to a fresh pipe or not at all, and a call after
\* shutdown does not write.
CanCall(t) ==
    /\ At(t, "idle")
    /\ \/ is_shutdown
       \/ ~process.alive
       \/ Len(pipe.requests) < MaxRequests

Call(t, method, req, cfg) ==
    /\ CanCall(t)
    /\ pc' = [pc EXCEPT ![t] = method]
    /\ op' = [op EXCEPT ![t] = method]
    /\ request' = [request EXCEPT ![t] = req]
    /\ new_config' = [new_config EXCEPT ![t] = cfg]
    /\ UNCHANGED <<response, result, raised, waited, elapsed, io>>
    /\ UNCHANGED shared
    /\ UNCHANGED elsewhere

\* trond calls send_request(request)
CallSendRequest(t) ==
    \E id \in Ids : Call(t, "send_request", Request(id, "store"), 0)

\* trond calls send_request_get_response(request)
CallSendRequestGetResponse(t) ==
    \E id \in Ids :
        Call(t, "send_request_get_response", Request(id, "store"), 0)

\* trond calls send_request_shutdown(request)
CallSendRequestShutdown(t) ==
    \E id \in Ids :
        Call(t, "send_request_shutdown", Request(id, "shutdown"), 0)

\* trond calls update_config(new_config, config_request)
CallUpdateConfig(t) ==
    \E id \in Ids, cfg \in Configs :
        Call(t, "update_config", Request(id, "store"), cfg)

\* The caller takes the result; the thread is free for its next call.
Reset(t) ==
    /\ At(t, "done")
    /\ pc' = [pc EXCEPT ![t] = "idle"]
    /\ op' = [op EXCEPT ![t] = "none"]
    /\ request' = [request EXCEPT ![t] = NoRequest]
    /\ new_config' = [new_config EXCEPT ![t] = 0]
    /\ response' = [response EXCEPT ![t] = None]
    /\ result' = [result EXCEPT ![t] = None]
    /\ raised' = [raised EXCEPT ![t] = "none"]
    /\ waited' = [waited EXCEPT ![t] = 0]
    /\ elapsed' = [elapsed EXCEPT ![t] = 0]
    /\ io' = [io EXCEPT ![t] = <<>>]
    /\ UNCHANGED shared
    /\ UNCHANGED elsewhere

(***************************************************************************)
(* _start_process and _verify_is_alive (lines 40-65)                       *)
(***************************************************************************)

\* _start_process: a fresh pipe, and a new process started on its other end
\* with self.config.  The handles of the old pair are dropped: what the old
\* pipe held, and what the old worker had read, is gone.
SpawnedProcess(cfg) == [alive |-> TRUE, config |-> cfg]

\* A variant of verify_is_alive that starts a new process without asking
\* whether the current one is alive.
verify_is_alive_always_restart(t) ==
    /\ At(t, "verify_is_alive")
    /\ Goto(t, "start_process", <<"is_alive">>)
    /\ UNCHANGED <<op, request, new_config, response, result, raised,
                   waited, elapsed>>
    /\ UNCHANGED shared

\* Line 60: if not self.process.is_alive()
verify_is_alive(t) ==
    /\ At(t, "verify_is_alive")
    /\ IF process.alive
       THEN Goto(t, "send_bytes", <<"is_alive">>)
       ELSE Goto(t, "start_process", <<"is_alive">>)
    /\ UNCHANGED <<op, request, new_config, response, result, raised,
                   waited, elapsed>>
    /\ UNCHANGED shared

\* A variant of start_process that starts the new worker with the config
\* the old one was started with, not with self.config.
start_process_stale_config(t) ==
    /\ At(t, "start_process")
    /\ pipe' = Pipe
    /\ process' = SpawnedProcess(process.config)
    /\ pending' = {}
    /\ Goto(t, "verify_restarted", <<"spawn">>)
    /\ UNCHANGED <<op, request, new_config, response, result, raised,
                   waited, elapsed>>
    /\ UNCHANGED <<is_shutdown, config, orphaned_responses>>

\* A variant of start_process that starts over with an empty dict.
start_process_forgets_orphans(t) ==
    /\ At(t, "start_process")
    /\ pipe' = Pipe
    /\ process' = SpawnedProcess(config)
    /\ pending' = {}
    /\ orphaned_responses' = [i \in Ids |-> None]
    /\ Goto(t, "verify_restarted", <<"spawn">>)
    /\ UNCHANGED <<op, request, new_config, response, result, raised,
                   waited, elapsed>>
    /\ UNCHANGED <<is_shutdown, config>>

\* Line 63: self._start_process()
start_process(t) ==
    /\ At(t, "start_process")
    /\ pipe' = Pipe
    /\ process' = SpawnedProcess(config)
    /\ pending' = {}
    /\ Goto(t, "verify_restarted", <<"spawn">>)
    /\ UNCHANGED <<op, request, new_config, response, result, raised,
                   waited, elapsed>>
    /\ UNCHANGED <<is_shutdown, config, orphaned_responses>>

\* A variant of verify_restarted that restarts again when the new worker is
\* dead too, instead of raising.
verify_restarted_retry(t) ==
    /\ At(t, "verify_restarted")
    /\ IF process.alive
       THEN Goto(t, "send_bytes", <<"is_alive">>)
       ELSE Goto(t, "start_process", <<"is_alive">>)
    /\ UNCHANGED <<op, request, new_config, response, result, raised,
                   waited, elapsed>>
    /\ UNCHANGED shared

\* Lines 64-65: if not self.process.is_alive(): raise TronStoreError(...)
verify_restarted(t) ==
    /\ At(t, "verify_restarted")
    /\ IF process.alive
       THEN /\ Goto(t, "send_bytes", <<"is_alive">>)
            /\ UNCHANGED <<result, raised>>
       ELSE Raise(t, "TronStoreError", <<"is_alive">>)
    /\ UNCHANGED <<op, request, new_config, response, waited, elapsed>>
    /\ UNCHANGED shared

(***************************************************************************)
(* send_request (lines 67-75)                                              *)
(***************************************************************************)

\* Where a method goes on after self.pipe.send_bytes(request.serialized).
AfterSendBytes(method) ==
    CASE method = "send_request" -> "done"
      [] method = "update_config" -> "set_config"
      [] OTHER -> "poll_orphans"

\* A variant of send_request without the is_shutdown check.
send_request_unchecked(t) ==
    /\ pc[t] \in {"send_request", "update_config"}
    /\ Goto(t, "verify_is_alive", <<>>)
    /\ UNCHANGED <<op, request, new_config, response, result, raised,
                   waited, elapsed>>
    /\ UNCHANGED shared

\* Lines 71-73: if self.is_shutdown: return.  update_config calls
\* send_request, and goes on to line 160 when it returns.
send_request(t) ==
    /\ pc[t] \in {"send_request", "update_config"}
    /\ IF is_shutdown
       THEN IF op[t] = "update_config"
            THEN /\ Goto(t, "set_config", <<>>)
                 /\ UNCHANGED <<result, raised>>
            ELSE Return(t, None, <<>>)
       ELSE /\ Goto(t, "verify_is_alive", <<>>)
            /\ UNCHANGED <<result, raised>>
    /\ UNCHANGED <<op, request, new_config, response, waited, elapsed>>
    /\ UNCHANGED shared

\* Lines 75, 111, 133: self.pipe.send_bytes(request.serialized).  A closed
\* connection raises IOError.
send_bytes(t) ==
    /\ At(t, "send_bytes")
    /\ IF pipe.closed
       THEN /\ Raise(t, "IOError", <<>>)
            /\ UNCHANGED pipe
       ELSE /\ pipe' = [pipe EXCEPT !.requests = Append(@, request[t])]
            /\ IF AfterSendBytes(op[t]) = "done"
               THEN Return(t, None, <<"write">>)
               ELSE /\ Goto(t, AfterSendBytes(op[t]), <<"write">>)
                    /\ UNCHANGED <<result, raised>>
    /\ UNCHANGED <<op, request, new_config, response, waited, elapsed>>
    /\ UNCHANGED <<is_shutdown, config, process, orphaned_responses, pending>>

(***************************************************************************)
(* update_config (lines 158-160)                                           *)
(***************************************************************************)

\* Line 160: self.config = new_config
update_config(t) ==
    /\ At(t, "set_config")
    /\ config' = new_config[t]
    /\ Return(t, None, <<>>)
    /\ UNCHANGED <<op, request, new_config, response, waited, elapsed>>
    /\ UNCHANGED <<is_shutdown, process, pipe, orphaned_responses, pending>>

(***************************************************************************)
(* _poll_for_response (lines 78-99)                                        *)
(***************************************************************************)

\* The timeout the method passes to _poll_for_response (lines 112, 134).
TimeoutOf(method) ==
    IF method = "send_request_shutdown" THEN SHUTDOWN_TIMEOUT
    ELSE POLL_TIMEOUT

\* The seconds between two instants at which a blocked poll is observed.
TickLength(timeout) ==
    IF timeout \div TicksPerPoll > 0 THEN timeout \div TicksPerPoll ELSE 1

\* Where a method goes on after _poll_for_response returns.
AfterPoll(method) ==
    IF method = "send_request_shutdown" THEN "shutdown_close"
    ELSE "get_response_return"

\* A variant of poll_orphans that looks at the pipe before the dict: what is
\* waiting there is received and kept, then the kept response is returned.
poll_orphans_after_recv(t) ==
    /\ At(t, "poll_orphans")
    /\ IF HasOrphan(request[t].id)
       THEN /\ response' = [response EXCEPT
                                ![t] = orphaned_responses[request[t].id]]
            /\ IF ~pipe.closed /\ pipe.responses # <<>>
               THEN /\ pipe' = [pipe EXCEPT !.responses = Tail(@)]
                    /\ orphaned_responses' =
                         [[orphaned_responses EXCEPT ![request[t].id] = None]
                             EXCEPT ![Head(pipe.responses).id] =
                                        Head(pipe.responses)]
                    /\ Goto(t, AfterPoll(op[t]), <<"recv", "orphan">>)
               ELSE /\ orphaned_responses' =
                         [orphaned_responses EXCEPT ![request[t].id] = None]
                    /\ Goto(t, AfterPoll(op[t]), <<"orphan">>)
                    /\ UNCHANGED pipe
       ELSE /\ Goto(t, "poll", <<>>)
            /\ UNCHANGED <<response, orphaned_responses, pipe>>
    /\ UNCHANGED <<op, request, new_config, result, raised, waited, elapsed>>
    /\ UNCHANGED <<is_shutdown, config, process, pending>>

\* Lines 88-91: a response with this id is already in the dict.
poll_orphans(t) ==
    /\ At(t, "poll_orphans")
    /\ IF HasOrphan(request[t].id)
       THEN /\ response' = [response EXCEPT
                                ![t] = orphaned_responses[request[t].id]]
            /\ orphaned_responses' =
                   [orphaned_responses EXCEPT ![request[t].id] = None]
            /\ Goto(t, AfterPoll(op[t]), <<"orphan">>)
       ELSE /\ Goto(t, "poll", <<>>)
            /\ UNCHANGED <<response, orphaned_responses>>
    /\ UNCHANGED <<op, request, new_config, result, raised, waited, elapsed>>
    /\ UNCHANGED <<is_shutdown, config, process, pipe, pending>>

\* Line 93, blocked in self.pipe.poll(timeout): nothing to read yet, and a
\* part of the timeout goes by.
Tick(t) ==
    /\ At(t, "poll")
    /\ ~pipe.closed
    /\ pipe.responses = <<>>
    /\ waited[t] < TimeoutOf(op[t])
    /\ LET step == TickLength(TimeoutOf(op[t]))
           left == TimeoutOf(op[t]) - waited[t]
           d == IF step < left THEN step ELSE left
       IN  /\ waited' = [waited EXCEPT ![t] = @ + d]
           /\ elapsed' = [elapsed EXCEPT ![t] = @ + d]
    /\ UNCHANGED <<pc, op, request, new_config, response, result, raised, io>>
    /\ UNCHANGED shared
    /\ UNCHANGED elsewhere

\* A variant of poll_recv that matches by arrival: the first response
\* received is returned, whatever its id.
poll_recv_by_arrival(t) ==
    /\ At(t, "poll")
    /\ ~pipe.closed
    /\ pipe.responses # <<>>
    /\ pipe' = [pipe EXCEPT !.responses = Tail(@)]
    /\ response' = [response EXCEPT ![t] = Head(pipe.responses)]
    /\ Goto(t, AfterPoll(op[t]), <<"recv">>)
    /\ UNCHANGED <<op, request, new_config, result, raised, waited, elapsed>>
    /\ UNCHANGED <<is_shutdown, config, process, orphaned_responses, pending>>

\* Lines 93-98: poll returns True, the response is received and rebuilt; it
\* is returned if it has the id, else it is kept in the dict and the loop
\* polls again, with the whole timeout.  A closed connection raises IOError.
poll_recv(t) ==
    /\ At(t, "poll")
    /\ pipe.closed \/ pipe.responses # <<>>
    /\ IF pipe.closed
       THEN /\ Raise(t, "IOError", <<>>)
            /\ UNCHANGED <<pipe, response, orphaned_responses, waited>>
       ELSE LET r == Head(pipe.responses) IN
            /\ pipe' = [pipe EXCEPT !.responses = Tail(@)]
            /\ UNCHANGED <<result, raised>>
            /\ IF r.id = request[t].id
               THEN /\ response' = [response EXCEPT ![t] = r]
                    /\ Goto(t, AfterPoll(op[t]), <<"recv">>)
                    /\ UNCHANGED <<orphaned_responses, waited>>
               ELSE /\ orphaned_responses' =
                           [orphaned_responses EXCEPT ![r.id] = r]
                    /\ waited' = [waited EXCEPT ![t] = 0]
                    /\ Goto(t, "poll", <<"recv">>)
                    /\ UNCHANGED response
    /\ UNCHANGED <<op, request, new_config, elapsed>>
    /\ UNCHANGED <<is_shutdown, config, process, pending>>

\* Lines 93, 99: poll returns False after timeout seconds; return None.
poll_timeout(t) ==
    /\ At(t, "poll")
    /\ ~pipe.closed
    /\ pipe.responses = <<>>
    /\ waited[t] = TimeoutOf(op[t])
    /\ response' = [response EXCEPT ![t] = None]
    /\ Goto(t, AfterPoll(op[t]), <<"timeout">>)
    /\ UNCHANGED <<op, request, new_config, result, raised, waited, elapsed>>
    /\ UNCHANGED shared

(***************************************************************************)
(* send_request_get_response (lines 101-117)                               *)
(***************************************************************************)

\* Lines 107-109: if self.is_shutdown: return build(False, request.id, '')
send_request_get_response(t) ==
    /\ At(t, "send_request_get_response")
    /\ IF is_shutdown
       THEN Return(t, build(FALSE, request[t].id, ""), <<>>)
       ELSE /\ Goto(t, "verify_is_alive", <<>>)
            /\ UNCHANGED <<result, raised>>
    /\ UNCHANGED <<op, request, new_config, response, waited, elapsed>>
    /\ UNCHANGED shared

\* A variant of get_response_return that returns response as it is, None
\* after a timeout.
get_response_return_none(t) ==
    /\ At(t, "get_response_return")
    /\ Return(t, response[t], <<>>)
    /\ UNCHANGED <<op, request, new_config, response, waited, elapsed>>
    /\ UNCHANGED shared

\* A variant of get_response_return that sends the request once more after
\* a first timeout.
get_response_return_retry(t) ==
    /\ At(t, "get_response_return")
    /\ IF response[t] = None /\ Count(t, "write") < 2 /\ ~pipe.closed
          /\ Len(pipe.requests) < MaxRequests
       THEN /\ Goto(t, "send_bytes", <<>>)
            /\ UNCHANGED <<result, raised>>
       ELSE IF response[t] = None
            THEN Return(t, build(FALSE, request[t].id, ""), <<>>)
            ELSE Return(t, response[t], <<>>)
    /\ UNCHANGED <<op, request, new_config, response, waited, elapsed>>
    /\ UNCHANGED shared

\* Lines 113-117: if not response: return build(False, request.id, '')
\*                else: return response
get_response_return(t) ==
    /\ At(t, "get_response_return")
    /\ IF response[t] = None
       THEN Return(t, build(FALSE, request[t].id, ""), <<>>)
       ELSE Return(t, response[t], <<>>)
    /\ UNCHANGED <<op, request, new_config, response, waited, elapsed>>
    /\ UNCHANGED shared

(***************************************************************************)
(* send_request_shutdown (lines 119-156)                                   *)
(***************************************************************************)

\* A variant of send_request_shutdown that takes the short way only when
\* is_shutdown is set: a dead worker is sent the shutdown request.
send_request_shutdown_latched_only(t) ==
    /\ At(t, "send_request_shutdown")
    /\ IF is_shutdown
       THEN Goto(t, "short_close", <<>>)
       ELSE Goto(t, "shutdown_latch", <<"is_alive">>)
    /\ UNCHANGED <<op, request, new_config, response, result, raised,
                   waited, elapsed>>
    /\ UNCHANGED shared

\* Line 127: if self.is_shutdown or not self.process.is_alive().  The
\* process is asked only when is_shutdown is false.
send_request_shutdown(t) ==
    /\ At(t, "send_request_shutdown")
    /\ IF is_shutdown
       THEN Goto(t, "short_close", <<>>)
       ELSE IF ~process.alive
            THEN Goto(t, "short_close", <<"is_alive">>)
            ELSE Goto(t, "shutdown_latch", <<"is_alive">>)
    /\ UNCHANGED <<op, request, new_config, response, result, raised,
                   waited, elapsed>>
    /\ UNCHANGED shared

\* Line 128: self.pipe.close()
short_close(t) ==
    /\ At(t, "short_close")
    /\ pipe' = [pipe EXCEPT !.closed = TRUE]
    /\ Goto(t, "short_latch", <<"close">>)
    /\ UNCHANGED <<op, request, new_config, response, result, raised,
                   waited, elapsed>>
    /\ UNCHANGED <<is_shutdown, config, process, orphaned_responses, pending>>

\* Lines 129-130: self.is_shutdown = True; return
short_latch(t) ==
    /\ At(t, "short_latch")
    /\ is_shutdown' = TRUE
    /\ Return(t, None, <<"latch">>)
    /\ UNCHANGED <<op, request, new_config, response, waited, elapsed>>
    /\ UNCHANGED <<config, process, pipe, orphaned_responses, pending>>

\* A variant of shutdown_latch that leaves is_shutdown for later.
shutdown_latch_skipped(t) ==
    /\ At(t, "shutdown_latch")
    /\ Goto(t, "send_bytes", <<>>)
    /\ UNCHANGED <<op, request, new_config, response, result, raised,
                   waited, elapsed>>
    /\ UNCHANGED shared

\* Line 131: self.is_shutdown = True
shutdown_latch(t) ==
    /\ At(t, "shutdown_latch")
    /\ is_shutdown' = TRUE
    /\ Goto(t, "send_bytes", <<"latch">>)
    /\ UNCHANGED <<op, request, new_config, response, result, raised,
                   waited, elapsed>>
    /\ UNCHANGED <<config, process, pipe, orphaned_responses, pending>>

\* A variant of shutdown_close that gives up on an unclean shutdown: when the
\* worker has not confirmed, it raises and leaves pipe and process alone.
shutdown_close_clean_only(t) ==
    /\ At(t, "shutdown_close")
    /\ IF response[t] # None /\ response[t].success
       THEN /\ pipe' = [pipe EXCEPT !.closed = TRUE]
            /\ Goto(t, "shutdown_kill", <<"close">>)
            /\ UNCHANGED <<result, raised>>
       ELSE /\ Raise(t, "TronStoreError", <<>>)
            /\ UNCHANGED pipe
    /\ UNCHANGED <<op, request, new_config, response, waited, elapsed>>
    /\ UNCHANGED <<is_shutdown, config, orphaned_responses, process, pending>>

\* Lines 136-139: log an unclean shutdown, then self.pipe.close()
shutdown_close(t) ==
    /\ At(t, "shutdown_close")
    /\ pipe' = [pipe EXCEPT !.closed = TRUE]
    /\ Goto(t, "shutdown_kill", <<"close">>)
    /\ UNCHANGED <<op, request, new_config, response, result, raised,
                   waited, elapsed>>
    /\ UNCHANGED <<is_shutdown, config, orphaned_responses, process, pending>>

\* A variant of shutdown_kill that sends no signal: the worker is left to
\* exit by itself.
shutdown_kill_skipped(t) ==
    /\ At(t, "shutdown_kill")
    /\ Return(t, None, <<>>)
    /\ UNCHANGED <<op, request, new_config, response, waited, elapsed>>
    /\ UNCHANGED shared

\* Line 156: os.kill(self.process.pid, signal.SIGKILL)
shutdown_kill(t) ==
    /\ At(t, "shutdown_kill")
    /\ process' = [process EXCEPT !.alive = FALSE]
    /\ pending' = {}
    /\ Return(t, None, <<"kill">>)
    /\ UNCHANGED <<op, request, new_config, response, waited, elapsed>>
    /\ UNCHANGED <<is_shutdown, config, pipe, orphaned_responses>>

(***************************************************************************)
(* The worker, tronstore.main(config, child_pipe)                          *)
(***************************************************************************)

\* The worker reads the next request from its end of the pipe, once it
\* has answered the one it may hold with the same id and command.
WorkerRead ==
    /\ process.alive
    /\ pipe.requests # <<>>
    /\ Head(pipe.requests) \notin pending
    /\ pending' = pending \cup {Head(pipe.requests)}
    /\ pipe' = [pipe EXCEPT !.requests = Tail(@)]
    /\ UNCHANGED <<is_shutdown, config, process, orphaned_responses>>
    /\ UNCHANGED locals
    /\ UNCHANGED elsewhere

\* The worker answers one of the requests it has read, in any order, with
\* the request's id.  It answers a shutdown request only when it has
\* answered every other request, and then exits.
WorkerReply ==
    /\ process.alive
    /\ ~pipe.closed
    /\ Len(pipe.responses) < MaxResponses
    /\ \E req \in pending, success \in BOOLEAN :
          /\ req.cmd = "shutdown" => pending = {req}
          /\ pipe' = [pipe EXCEPT !.responses =
                          Append(@, WorkerResponse(req, success))]
          /\ pending' = pending \ {req}
          /\ process' = [process EXCEPT
                             !.alive = req.cmd # "shutdown"]
    /\ UNCHANGED <<is_shutdown, config, orphaned_responses>>
    /\ UNCHANGED locals
    /\ UNCHANGED elsewhere

\* The worker exits for a reason of its own: trond's process handle is no
\* longer alive.
WorkerCrash ==
    /\ process.alive
    /\ process' = [process EXCEPT !.alive = FALSE]
    /\ pending' = {}
    /\ UNCHANGED <<is_shutdown, config, pipe, orphaned_responses>>
    /\ UNCHANGED locals
    /\ UNCHANGED elsewhere

(***************************************************************************)
(* The specifications                                                      *)
(***************************************************************************)

\* One statement of the method thread t is in.
Step(t) ==
    \/ send_request(t)
    \/ verify_is_alive(t)
    \/ start_process(t)
    \/ verify_restarted(t)
    \/ send_bytes(t)
    \/ update_config(t)
    \/ poll_orphans(t)
    \/ Tick(t)
    \/ poll_recv(t)
    \/ poll_timeout(t)
    \/ send_request_get_response(t)
    \/ get_response_return(t)
    \/ send_request_shutdown(t)
    \/ short_close(t)
    \/ short_latch(t)
    \/ shutdown_latch(t)
    \/ shutdown_close(t)
    \/ shutdown_kill(t)

\* trond, as written: every method is called from the one main thread, so
\* a call begins when the one before it has returned.
Next ==
    \/ CallSendRequest(MainThread)
    \/ CallSendRequestGetResponse(MainThread)
    \/ CallSendRequestShutdown(MainThread)
    \/ CallUpdateConfig(MainThread)
    \/ Reset(MainThread)
    \/ Step(MainThread)
    \/ WorkerRead
    \/ WorkerReply
    \/ WorkerCrash

Spec == Init /\ [][Next]_vars

\* The calling thread keeps running and time keeps passing: a method that
\* has a next statement executes it.
FairSpec == Spec /\ WF_vars(Step(MainThread))

(***************************************************************************)
(* Callers on several threads                                              *)
(***************************************************************************)

\* One statement of the method thread t is in, for the methods that take a
\* request and nothing else.
RequestStep(t) ==
    \/ send_request(t)
    \/ verify_is_alive(t)
    \/ start_process(t)
    \/ verify_restarted(t)
    \/ send_bytes(t)
    \/ poll_orphans(t)
    \/ Tick(t)
    \/ poll_recv(t)
    \/ poll_timeout(t)
    \/ send_request_get_response(t)
    \/ get_response_return(t)
    \/ send_request_shutdown(t)
    \/ short_close(t)
    \/ short_latch(t)
    \/ shutdown_latch(t)
    \/ shutdown_close(t)
    \/ shutdown_kill(t)

\* The class as it is, with a caller on every thread.  Each thread makes one
\* call, at any time, and the statements of the calls in flight interleave
\* in any order.
ThreadedNext ==
    \/ \E t \in Threads :
          \/ CallSendRequest(t)
          \/ CallSendRequestGetResponse(t)
          \/ CallSendRequestShutdown(t)
          \/ RequestStep(t)
    \/ WorkerRead
    \/ WorkerReply
    \/ WorkerCrash

ThreadedSpec == Init /\ [][ThreadedNext]_vars

\* Lines 84-86: "If Tron is extended into a synchronous program, simply just
\* add a lock around this function ( with mutex.lock(): ) and everything'll
\* be fine."  The lock is free for thread t when no other thread is inside
\* _poll_for_response: a thread that finds its response in the dict is in
\* and out in one step, the others are inside while they poll.
MutexFree(t) == \A u \in Threads \ {t} : pc[u] # "poll"

\* A variant of locked_poll_orphans that enters without taking the lock.
unlocked_poll_orphans(t) == poll_orphans(t)

\* _poll_for_response entered under the lock.
locked_poll_orphans(t) ==
    /\ MutexFree(t)
    /\ poll_orphans(t)

\* send_request_get_response with the lock around _poll_for_response.
LockedStep(t) ==
    \/ send_request_get_response(t)
    \/ verify_is_alive(t)
    \/ start_process(t)
    \/ verify_restarted(t)
    \/ send_bytes(t)
    \/ locked_poll_orphans(t)
    \/ Tick(t)
    \/ poll_recv(t)
    \/ poll_timeout(t)
    \/ get_response_return(t)

\* A caller of send_request_get_response on every thread, with the lock.
\* Each thread makes one call, at any time.
MutexNext ==
    \/ \E t \in Threads :
          \/ CallSendRequestGetResponse(t)
          \/ LockedStep(t)
    \/ WorkerRead
    \/ WorkerReply
    \/ WorkerCrash

MutexSpec == Init /\ [][MutexNext]_vars

(***************************************************************************)
(* command_context.py: CommandContext.__getitem__ and get (lines 56-71)    *)
(***************************************************************************)

\* The objects a CommandContext is built from, and the contexts of up to d
\* links.
PlainObjects ==
    {PyNone, Filler} \cup {Dict(m) : m \in Mappings}
        \cup {Object(m) : m \in Mappings}

RECURSIVE Contexts(_)
Contexts(d) ==
    IF d <= 1
    THEN {CommandContext(b, n) : b \in PlainObjects, n \in PlainObjects}
    ELSE {CommandContext(b, n) :
              b \in PlainObjects, n \in PlainObjects \cup Contexts(d - 1)}

RECURSIVE getitem(_, _)

\* operator.itemgetter(name)(target): target[name].  An object without
\* __getitem__ raises TypeError; a CommandContext looks name up in turn.
itemgetter(target, name) ==
    CASE target.kind = "dict" ->
             IF target.items[name] # Missing
             THEN Found(target.items[name]) ELSE Raised("KeyError")
      [] target.kind = "context" -> getitem(target, name)
      [] OTHER -> Raised("TypeError")

\* operator.attrgetter(name)(target): getattr(target, name).  A dict and a
\* CommandContext have the method get.
attrgetter(target, name) ==
    CASE target.kind = "object" ->
             IF target.attrs[name] # Missing
             THEN Found(target.attrs[name]) ELSE Raised("AttributeError")
      [] target.kind \in {"dict", "context"} ->
             IF name = "get"
             THEN Found(BoundMethod) ELSE Raised("AttributeError")
      [] OTHER -> Raised("AttributeError")

\* Line 63: getters = [operator.itemgetter(name), operator.attrgetter(name)]
getters(j, target, name) ==
    IF j = 1 THEN itemgetter(target, name) ELSE attrgetter(target, name)

\* A variant of targets that looks in next before base.
targets_next_first(self) == <<self.next, self.base>>

\* Line 64: for target in [self.base, self.next]
targets(self) == <<self.base, self.next>>

\* Lines 62-71, __getitem__ called on a context further down the chain: the
\* two loops, then raise KeyError(name).
getitem(self, name) ==
    LET RECURSIVE loop(_, _)
        loop(i, j) ==
            IF i > Len(targets(self)) THEN Raised("KeyError")
            ELSE LET r == getters(j, targets(self)[i], name) IN
                 IF r.raised = "none" THEN r
                 ELSE IF j < 2 THEN loop(i, j + 1) ELSE loop(i + 1, 1)
    IN  loop(1, 1)

\* A caller looks name up: context[name]
CallGetItem ==
    /\ context.pc = "idle"
    /\ \E self \in Contexts(MaxDepth), name \in Names :
          context' = [context EXCEPT !.pc = "getter", !.self = self,
                                     !.name = name, !.method = "getitem"]
    /\ UNCHANGED <<shared, locals, migration>>

\* A caller looks name up: context.get(name, default)
CallGet ==
    /\ context.pc = "idle"
    /\ \E self \in Contexts(MaxDepth), name \in Names,
          default \in Values \cup {Missing} :
          context' = [context EXCEPT !.pc = "getter", !.self = self,
                                     !.name = name, !.default = default,
                                     !.method = "get"]
    /\ UNCHANGED <<shared, locals, migration>>

\* Lines 64-69: one turn of the inner loop.  try: return getter(target);
\* except (KeyError, TypeError, AttributeError): pass
getitem_try ==
    /\ context.pc = "getter"
    /\ LET i == context.target
           j == context.getter
           r == getters(j, targets(context.self)[i], context.name)
       IN  IF r.raised = "none"
           THEN context' = [context EXCEPT !.pc = "done", !.outcome = r]
           ELSE IF j < 2
                THEN context' = [context EXCEPT !.getter = j + 1]
                ELSE IF i < Len(targets(context.self))
                     THEN context' = [context EXCEPT !.target = i + 1,
                                                     !.getter = 1]
                     ELSE context' = [context EXCEPT !.pc = "raise"]
    /\ UNCHANGED <<shared, locals, migration>>

\* Line 71: raise KeyError(name).  Lines 59-60, in get: except KeyError:
\* return default
getitem_raise ==
    /\ context.pc = "raise"
    /\ IF context.method = "get"
       THEN context' = [context EXCEPT !.pc = "done",
                                       !.outcome = Found(context.default)]
       ELSE context' = [context EXCEPT !.pc = "done",
                                       !.outcome = Raised("KeyError")]
    /\ UNCHANGED <<shared, locals, migration>>

\* The caller has its answer.
LookupDone ==
    /\ context.pc = "done"
    /\ context' = NoLookup
    /\ UNCHANGED <<shared, locals, migration>>

ContextNext ==
    \/ CallGetItem
    \/ CallGet
    \/ getitem_try
    \/ getitem_raise
    \/ LookupDone

ContextSpec == Init /\ [][ContextNext]_vars

(***************************************************************************)
(* contrib/migration_script.py                                             *)
(***************************************************************************)

\* A variant of check_job_if_running that lets a job the server does not
\* know pass.
RECURSIVE check_job_if_running_or_missing(_, _)
check_job_if_running_or_missing(jobs_status, job_name) ==
    IF jobs_status = <<>> THEN TRUE
    ELSE IF Head(jobs_status).name = job_name
         THEN Head(jobs_status).status # "running"
         ELSE check_job_if_running_or_missing(Tail(jobs_status), job_name)

\* Lines 54-66: the first entry with the job's name decides; False when
\* there is none.
RECURSIVE check_job_if_running(_, _)
check_job_if_running(jobs_status, job_name) ==
    IF jobs_status = <<>> THEN FALSE
    ELSE IF Head(jobs_status).name = job_name
         THEN Head(jobs_status).status # "running"
         ELSE check_job_if_running(Tail(jobs_status), job_name)

\* What the script has sent: a tronctl command for a job under a
\* namespace, or a command run on the server over ssh.
Command(command, ns, job, error) ==
    [command |-> command, ns |-> ns, job |-> job, error |-> error]
Ssh(command, error) == Command("ssh", command, 0, error)

\* The calls of command_jobs in main (lines 133, 137, 156, 165): the
\* statement main is at, the command and the namespace.
CommandJobs ==
    [disable |-> [command |-> "disable", ns |-> "old_ns"],
     recover |-> [command |-> "enable", ns |-> "old_ns"],
     move |-> [command |-> "move", ns |-> "new_ns"],
     enable |-> [command |-> "enable", ns |-> "new_ns"]]

\* The calls of ssh_command in main (lines 144, 153, 159, 162).
SshCommands ==
    [cron_stop |-> "service cron stop", rsync |-> "rsync",
     setup |-> "paasta_setup_tron_namespace",
     cron_start |-> "service cron start"]

\* main moves on to a call of command_jobs.
Enter(m, pc_) == [m EXCEPT !.pc = pc_, !.job = 1, !.command_flag = TRUE]

\* Lines 112-120: main() is run with a file name and asks the server for
\* the status of its jobs.
main ==
    /\ migration.pc = "idle"
    /\ \E yaml \in BOOLEAN, jobs_status \in JobsStatus :
          migration' = [migration EXCEPT
                            !.pc = IF yaml THEN "check" ELSE "end",
                            !.yaml = yaml,
                            !.jobs_status = jobs_status]
    /\ UNCHANGED <<shared, locals, context>>

\* Lines 122-131: is_migration_safe over the jobs; return if it is False.
check_jobs ==
    /\ migration.pc = "check"
    /\ IF migration.job <= MaxJobs
       THEN migration' =
                [migration EXCEPT
                     !.is_migration_safe =
                         @ /\ check_job_if_running(migration.jobs_status,
                                                   migration.job),
                     !.job = @ + 1]
       ELSE IF migration.is_migration_safe
            THEN migration' = Enter(migration, "disable")
            ELSE migration' = [migration EXCEPT !.pc = "end"]
    /\ UNCHANGED <<shared, locals, context>>

\* Lines 78-96: one turn of the loop of command_jobs: the request for the
\* next job, and the server's answer.
command_jobs ==
    /\ migration.pc \in DOMAIN CommandJobs
    /\ migration.job <= MaxJobs
    /\ \E error \in BOOLEAN :
          migration' =
              [migration EXCEPT
                   !.issued = Append(@, Command(
                                  CommandJobs[migration.pc].command,
                                  CommandJobs[migration.pc].ns,
                                  migration.job, error)),
                   !.command_flag = @ /\ ~error,
                   !.job = @ + 1]
    /\ UNCHANGED <<shared, locals, context>>

\* Line 97: return command_flag, and what main does with it (lines
\* 133-141, 156-159, 165-169).
command_jobs_return ==
    /\ migration.pc \in DOMAIN CommandJobs
    /\ migration.job > MaxJobs
    /\ migration' =
           CASE migration.pc = "disable" ->
                    IF migration.command_flag
                    THEN [migration EXCEPT !.pc = "cron_stop"]
                    ELSE Enter(migration, "recover")
             [] migration.pc = "move" -> [migration EXCEPT !.pc = "setup"]
             [] OTHER -> [migration EXCEPT !.pc = "end"]
    /\ UNCHANGED <<shared, locals, context>>

\* Lines 100-109: ssh_command runs the command on the server; a non-zero
\* exit code ends the script by exit(exitcode).
ssh_command ==
    /\ migration.pc \in DOMAIN SshCommands
    /\ \E exitcode \in {0, 1} :
          LET m == [migration EXCEPT
                        !.issued = Append(@, Ssh(SshCommands[migration.pc],
                                                 exitcode # 0))]
          IN  IF exitcode # 0
              THEN migration' = [m EXCEPT !.pc = "end",
                                          !.exitcode = exitcode]
              ELSE migration' =
                       CASE migration.pc = "cron_stop" ->
                                [m EXCEPT !.pc = "input",
                                          !.cron = "stopped"]
                         [] migration.pc = "rsync" -> Enter(m, "move")
                         [] migration.pc = "setup" ->
                                [m EXCEPT !.pc = "cron_start"]
                         [] OTHER ->
                                [Enter(m, "enable") EXCEPT
                                     !.cron = "running"]
    /\ UNCHANGED <<shared, locals, context>>

\* Lines 147-148: res = input(...); if res == 'y'
input ==
    /\ migration.pc = "input"
    /\ \E res \in {"y", "n"} :
          migration' = [migration EXCEPT
                            !.res = res,
                            !.pc = IF res = "y" THEN "rsync"
                                   ELSE "cron_start"]
    /\ UNCHANGED <<shared, locals, context>>

MigrationNext ==
    \/ main
    \/ check_jobs
    \/ command_jobs
    \/ command_jobs_return
    \/ ssh_command
    \/ input

MigrationSpec == Init /\ [][MigrationNext]_vars

(***************************************************************************)
(* Properties                                                              *)
(***************************************************************************)

SendAndWait == "send_request_get_response"
Shutdown == "send_request_shutdown"

\* Thread t takes the step that records effect e.
Does(t, e) == io'[t] = Append(io[t], e)

\* Thread t leaves its method in this step.
Leaves(t) == pc[t] # "done" /\ pc'[t] = "done"

\* C1: send_request_get_response returns within its timeout budget: the
\* time a call spends blocked in pipe.poll never exceeds POLL_TIMEOUT,
\* whatever the worker delivers.
C1_ReturnsWithinTimeout ==
    \A t \in Threads :
        op[t] = SendAndWait => elapsed[t] <= POLL_TIMEOUT

\* C2: responses are matched by id, never by arrival order.  A response
\* received while another id is awaited goes to orphaned_responses under
\* its own id and the wait goes on; a wait for an id that is in
\* orphaned_responses gets exactly the response kept there; and
\* send_request_get_response never returns a response of another id.
C2_IdExactMatching ==
    [][\A t \in Threads :
        LET awaited == request[t].id IN
        /\ Does(t, "recv") =>
              LET r == Head(pipe.responses) IN
              IF r.id = awaited
              THEN /\ response'[t] = r
                   /\ orphaned_responses' = orphaned_responses
              ELSE /\ orphaned_responses' =
                          [orphaned_responses EXCEPT ![r.id] = r]
                   /\ response'[t] = response[t]
                   /\ pc'[t] = "poll"
        /\ Does(t, "orphan") =>
              /\ orphaned_responses[awaited] # None
              /\ response'[t] = orphaned_responses[awaited]
        /\ (Leaves(t) /\ op[t] = SendAndWait /\ raised'[t] = "none") =>
              /\ result'[t].id = awaited
              /\ result'[t].src = "worker" => result'[t] = response[t]
      ]_vars

\* C2 witness: a wait returned the worker's response for its id after it
\* had received, and kept, a response for another id that arrived first.
C2_Witness ==
    \E t \in Threads :
        /\ Returned(t, SendAndWait)
        /\ Count(t, "recv") >= 2
        /\ result[t].src = "worker"
        /\ result[t].id = request[t].id
        /\ \E i \in Ids : i # request[t].id /\ HasOrphan(i)

\* C3, as claimed: no request passed to send_request or
\* send_request_get_response is silently lost.  A call that returns
\* without an error and without a failure response has at least written
\* the request to the pipe.
C3_NoRequestSilentlyLost ==
    \A t \in Threads :
        (pc[t] = "done" /\ op[t] \in {"send_request", SendAndWait}) =>
            \/ Did(t, "write")
            \/ raised[t] # "none"
            \/ result[t].src = "local"

\* C3, amended: every send_request_get_response call ends with a response
\* that carries the request's id (the worker's, or a synthetic failure) or
\* with TronStoreError; every send_request call ends with the request
\* written to the pipe or with TronStoreError, unless is_shutdown is set,
\* when the request is dropped and nothing is surfaced.
C3_FailureSurfacedToWaiter ==
    \A t \in Threads :
        /\ Returned(t, SendAndWait) =>
              \/ raised[t] = "TronStoreError"
              \/ /\ raised[t] = "none"
                 /\ result[t] # None
                 /\ result[t].id = request[t].id
                 /\ result[t].src = "local" => ~result[t].success
        /\ Returned(t, "send_request") =>
              \/ raised[t] = "TronStoreError"
              \/ raised[t] = "none" /\ Did(t, "write")
              \/ raised[t] = "none" /\ is_shutdown /\ io[t] = <<>>

\* C3 witness: a request was written, the worker died, and the waiting
\* caller got a synthetic failure.
C3_Witness ==
    \E t \in Threads :
        /\ Returned(t, SendAndWait)
        /\ Did(t, "write")
        /\ ~process.alive
        /\ result[t] = build(FALSE, request[t].id, "")

C5_PostShutdownNoOp ==
    [][\A t \in Threads :
        (/\ is_shutdown
         /\ pc[t] \in {"send_request", SendAndWait}
         /\ pc'[t] # pc[t]) =>
            /\ pc'[t] = "done"
            /\ io'[t] = <<>>
            /\ raised'[t] = "none"
            /\ UNCHANGED shared
            /\ result'[t] = IF op[t] = SendAndWait
                            THEN build(FALSE, request[t].id, "")
                            ELSE None
      ]_vars

\* C5 witness: send_request_get_response has returned the synthetic
\* failure after a shutdown, having done nothing.
C5_Witness ==
    \E t \in Threads :
        /\ Returned(t, SendAndWait)
        /\ is_shutdown
        /\ pipe.closed
        /\ io[t] = <<>>
        /\ result[t] = build(FALSE, request[t].id, "")

\* C6: send_request_shutdown always returns, whatever the worker does
\* with the shutdown request, and when it has returned is_shutdown is set,
\* the worker process is not alive and nothing was raised.
C6_ShutdownTerminates ==
    \A t \in Threads :
        /\ [](Returned(t, Shutdown) =>
                  /\ is_shutdown
                  /\ ~process.alive
                  /\ raised[t] = "none")
        /\ (op[t] = Shutdown) ~> Returned(t, Shutdown)

\* C6 witness: a shutdown has returned although the worker answered only
\* other ids and never the shutdown request.
C6_Witness ==
    \E t \in Threads :
        /\ Returned(t, Shutdown)
        /\ Did(t, "recv")
        /\ Did(t, "timeout")
        /\ Did(t, "kill")

\* C7: a send_request_get_response that finds the worker dead (and
\* is_shutdown false) goes on to spawn: a new worker with the current
\* config on a fresh pipe, before the request is written; the request is
\* then the one request in the new pipe; a new worker that is alive at the
\* second check raises nothing; and the response received from the new
\* pipe for the request's id is what the call returns.
C7_LivenessRestart ==
    [][\A t \in Threads :
        op[t] = SendAndWait =>
        /\ (pc[t] = "verify_is_alive" /\ ~process.alive /\ pc'[t] # pc[t]) =>
              pc'[t] = "start_process"
        /\ Does(t, "spawn") =>
              /\ ~is_shutdown
              /\ ~Did(t, "write")
              /\ process' = [alive |-> TRUE, config |-> config]
              /\ pipe' = Pipe
              /\ orphaned_responses' = orphaned_responses
        /\ (pc[t] = "verify_restarted" /\ process.alive /\ pc'[t] # pc[t]) =>
              pc'[t] = "send_bytes" /\ raised'[t] = "none"
        /\ (Did(t, "spawn") /\ Does(t, "write")) =>
              pipe'.requests = <<request[t]>>
        /\ (Did(t, "spawn") /\ Leaves(t) /\ Did(t, "recv")
                /\ response[t] # None) =>
              /\ raised'[t] = "none"
              /\ result'[t] = response[t]
              /\ result'[t].src = "worker"
              /\ result'[t].id = request[t].id
      ]_vars

\* C7 witness: the call restarted the worker and returned the new worker's
\* successful response.
C7_Witness ==
    \E t \in Threads :
        /\ Returned(t, SendAndWait)
        /\ Did(t, "spawn")
        /\ Did(t, "recv")
        /\ raised[t] = "none"
        /\ result[t] = Response(request[t].id, TRUE, "data", "worker")

\* C8: when the worker is dead at the liveness check and the restarted one
\* is dead too, TronStoreError leaves the method, the request is not
\* written, and no method spawns more than once.
C8_DoubleCrashFatal ==
    [][\A t \in Threads :
        /\ (pc[t] = "verify_restarted" /\ ~process.alive /\ pc'[t] # pc[t]) =>
              /\ pc'[t] = "done"
              /\ raised'[t] = "TronStoreError"
              /\ ~Did(t, "write")
              /\ io'[t] = <<"is_alive", "spawn", "is_alive">>
              /\ UNCHANGED shared
        /\ Count(t, "spawn")' <= 1
      ]_vars

\* C8 witness: send_request has raised TronStoreError after one restart.
C8_Witness ==
    \E t \in Threads :
        /\ Returned(t, "send_request")
        /\ raised[t] = "TronStoreError"
        /\ Count(t, "spawn") = 1
        /\ ~process.alive
        /\ pipe.requests = <<>>

\* C9: is_shutdown is false at first, never goes from true to false, and
\* is true when send_request_shutdown writes the shutdown request.
C9_ShutdownLatch ==
    /\ ~is_shutdown
    /\ [][/\ is_shutdown => is_shutdown'
          /\ \A t \in Threads :
                (op[t] = Shutdown /\ Does(t, "write")) => is_shutdown
       ]_vars

\* C9 witness: the shutdown request has been written, and is_shutdown is
\* still set when the call has returned.
C9_Witness ==
    \E t \in Threads :
        /\ Returned(t, Shutdown)
        /\ Did(t, "write")
        /\ is_shutdown

\* C10: after every update_config(new_config, config_request), however it
\* ends, self.config is new_config.
C10_ConfigAlwaysUpdated ==
    \A t \in Threads :
        Returned(t, "update_config") => config = new_config[t]

PollEffects == {"orphan", "recv", "timeout"}

\* C14: a send_request_shutdown that finds is_shutdown false and the worker
\* alive sets is_shutdown, writes the request, polls for the response with
\* the request's id for SHUTDOWN_TIMEOUT, closes the pipe and kills the
\* worker, in this order; it closes and kills whatever the poll returned,
\* and it raises nothing.
C14_ShutdownOrdering ==
    \A t \in Threads :
        /\ Returned(t, Shutdown) => raised[t] = "none"
        /\ op[t] = Shutdown /\ pc[t] = "poll" => waited[t] <= SHUTDOWN_TIMEOUT
        /\ op[t] = Shutdown /\ Did(t, "write") =>
              /\ io[t][1] = "is_alive"
              /\ io[t][2] = "latch"
              /\ io[t][3] = "write"
              /\ is_shutdown
              /\ Did(t, "timeout") => waited[t] = SHUTDOWN_TIMEOUT
              /\ Did(t, "orphan") \/ Did(t, "timeout") =>
                     pc[t] \in {"shutdown_close", "shutdown_kill", "done"}
        /\ Returned(t, Shutdown) /\ Did(t, "write") =>
              LET n == Len(io[t]) IN
              /\ n >= 6
              /\ \A i \in 4..(n - 2) : io[t][i] \in PollEffects
              /\ io[t][n - 2] # "recv" \/ response[t].id = request[t].id
              /\ io[t][n - 2] = "timeout" <=> response[t] = None
              /\ io[t][n - 1] = "close"
              /\ io[t][n] = "kill"
              /\ \A e \in {"is_alive", "latch", "write", "close", "kill"} :
                     Count(t, e) = 1
              /\ ~Did(t, "spawn")
              /\ pipe.closed
              /\ ~process.alive

\* The worker answered the shutdown request with a failure; the pipe was
\* closed and the worker killed all the same.
C14_Witness ==
    \E t \in Threads :
        /\ Returned(t, Shutdown)
        /\ Did(t, "write")
        /\ Did(t, "kill")
        /\ response[t].src = "worker"
        /\ ~response[t].success

\* C15: a send_request_shutdown that finds is_shutdown set or the worker
\* dead only closes the pipe and sets is_shutdown: it writes nothing, polls
\* nothing, spawns nothing and kills nothing, and it leaves the dict and
\* the config as they are.  A shutdown after a shutdown changes nothing.
C15_ShutdownShortCircuit ==
    [][\A t \in Threads :
          op[t] = Shutdown /\ pc'[t] # pc[t] =>
              /\ pc[t] = "send_request_shutdown" =>
                    /\ pc'[t] = "short_close" <=>
                           (is_shutdown \/ ~process.alive)
                    /\ UNCHANGED shared
              /\ pc[t] \in {"short_close", "short_latch"} =>
                    /\ pipe' = [pipe EXCEPT !.closed = TRUE]
                    /\ is_shutdown' = (is_shutdown \/ pc[t] = "short_latch")
                    /\ UNCHANGED <<config, orphaned_responses, process,
                                   pending>>
              /\ pc[t] = "short_latch" =>
                    /\ pc'[t] = "done"
                    /\ io'[t] \in {<<"close", "latch">>,
                                   <<"is_alive", "close", "latch">>}
                    /\ raised'[t] = "none"
                    /\ result'[t] = None
                    /\ is_shutdown'
                    /\ pipe'.closed
                    /\ ~process'.alive
                    /\ io'[t] = <<"close", "latch">> =>
                           is_shutdown /\ pipe.closed
      ]_vars

\* A shutdown that found is_shutdown set, with a response still in the dict.
C15_Witness ==
    \E t \in Threads :
        /\ Returned(t, Shutdown)
        /\ io[t] = <<"close", "latch">>
        /\ \E id \in Ids : HasOrphan(id)

\* C16: a response enters orphaned_responses only when _poll_for_response
\* receives one whose id is not the awaited id, under its own id and in
\* place of an older one with that id; it leaves only when the first
\* _poll_for_response for its id finds it, which returns it.  send_request,
\* update_config, the worker's death and a restart leave the dict alone, so
\* a response kept before a restart is still returned after it.
C16_OrphanLifecycle ==
    [][/\ orphaned_responses' # orphaned_responses =>
             \E t \in Threads :
                 \/ /\ pc[t] = "poll"
                    /\ Does(t, "recv")
                    /\ Head(pipe.responses).id # request[t].id
                 \/ /\ pc[t] = "poll_orphans"
                    /\ Does(t, "orphan")
                    /\ HasOrphan(request[t].id)
       /\ \A t \in Threads :
             /\ pc[t] = "poll" /\ Does(t, "recv") =>
                   LET r == Head(pipe.responses) IN
                   IF r.id = request[t].id
                   THEN UNCHANGED orphaned_responses
                   ELSE orphaned_responses' =
                            [orphaned_responses EXCEPT ![r.id] = r]
             /\ pc[t] = "poll_orphans" /\ pc'[t] # pc[t] =>
                   IF HasOrphan(request[t].id)
                   THEN /\ Does(t, "orphan")
                        /\ response'[t] = orphaned_responses[request[t].id]
                        /\ orphaned_responses' =
                               [orphaned_responses EXCEPT
                                    ![request[t].id] = None]
                        /\ pc'[t] = AfterPoll(op[t])
                   ELSE UNCHANGED orphaned_responses
             /\ pc[t] = "get_response_return" /\ Did(t, "orphan")
                   /\ pc'[t] # pc[t] => result'[t] = response[t]
             /\ op[t] \in {"send_request", "update_config"}
                   /\ pc'[t] # pc[t] => UNCHANGED orphaned_responses
             /\ Does(t, "spawn") => UNCHANGED orphaned_responses
       /\ process.alive # process'.alive => UNCHANGED orphaned_responses
      ]_vars

\* The worker died with a response in the dict; the call that restarted the
\* worker was returned that response.
C16_Witness ==
    \E t \in Threads :
        /\ Returned(t, SendAndWait)
        /\ Did(t, "spawn")
        /\ Did(t, "orphan")
        /\ result[t].src = "worker"
        /\ result[t].id = request[t].id

\* The checks and spawns of a call, in order.
Liveness(t) == SelectSeq(io[t], LAMBDA e : e \in {"is_alive", "spawn"})

\* C17: with one caller at a time, a process is started after construction
\* only by a call that has just seen the current one dead, so no live
\* worker is ever replaced; send_request_shutdown kills the current
\* process, the one started last; and a request is written only by a call
\* whose last look at the current process found it alive.
C17_SingleWorker ==
    [][/\ process' # process /\ process'.alive =>
             \E t \in Threads : Does(t, "spawn")
       /\ \A t \in Threads :
             /\ Does(t, "spawn") =>
                   /\ ~process.alive
                   /\ pc[t] = "start_process"
                   /\ io[t] # <<>> /\ io[t][Len(io[t])] = "is_alive"
                   /\ process' = SpawnedProcess(config)
             /\ Does(t, "kill") =>
                   /\ op[t] = Shutdown
                   /\ process' = [process EXCEPT !.alive = FALSE]
                   /\ \A u \in Threads : ~Did(u, "spawn")
             /\ pc'[t] = "send_bytes" /\ pc[t] # "send_bytes" =>
                   IF op[t] = Shutdown
                   THEN pc[t] = "shutdown_latch" /\ io[t] = <<"is_alive">>
                   ELSE /\ pc[t] \in {"verify_is_alive", "verify_restarted"}
                        /\ Does(t, "is_alive")
                        /\ process.alive
             /\ pc'[t] = "shutdown_latch" /\ pc[t] # "shutdown_latch" =>
                   Does(t, "is_alive") /\ process.alive
             /\ Does(t, "write") =>
                   /\ pc[t] = "send_bytes"
                   /\ Liveness(t) # <<>>
                   /\ Liveness(t)[Len(Liveness(t))] = "is_alive"
      ]_vars

\* The worker was found dead and replaced, and the request was written to
\* the new worker, which answered it.
C17_Witness ==
    \E t \in Threads :
        /\ Returned(t, SendAndWait)
        /\ io[t] = <<"is_alive", "spawn", "is_alive", "write", "recv">>
        /\ result[t].src = "worker"
        /\ process.alive

\* C12: however a send_request or send_request_get_response interleaves
\* with a send_request_shutdown on another thread, no request is written
\* once the shutdown has closed the pipe, and no process is started once
\* the shutdown has killed the worker.
C12_SendNeverRacesShutdown ==
    [][\A t \in Threads :
          /\ Does(t, "write") =>
                \A u \in Threads : ~(op[u] = Shutdown /\ Did(u, "close"))
          /\ Does(t, "spawn") =>
                \A u \in Threads : ~(op[u] = Shutdown /\ Did(u, "kill"))
      ]_vars

\* C13: with the lock around _poll_for_response, a send_request_get_response
\* never gives up while the response with its id is in the dict, whatever
\* the calls on the other threads do, and what it returns has its own id:
\* a response the worker has given in time is returned to the thread that
\* asked for it, from the pipe or from the dict.
C13_MutexMakesPollSafe ==
    [][\A t \in Threads :
          /\ pc[t] = "poll" /\ pc'[t] # pc[t] =>
                /\ MutexFree(t)
                /\ ~HasOrphan(request[t].id)
          /\ Does(t, "timeout") =>
                /\ ~HasOrphan(request[t].id)
                /\ pipe.responses = <<>>
          /\ Leaves(t) /\ raised'[t] = "none" =>
                /\ result'[t].id = request[t].id
                /\ result'[t].src = "local" <=> Did(t, "timeout")
                /\ result'[t].src = "worker" =>
                       result'[t].data = WorkerResponse(request[t],
                                             result'[t].success).data
      ]_vars

\* Two calls with different ids at the same time: the one that polled has
\* received both responses, and the other has found its own in the dict.
C13_Witness ==
    \E t, u \in Threads :
        /\ t # u
        /\ request[t].id # request[u].id
        /\ Returned(t, SendAndWait)
        /\ Returned(u, SendAndWait)
        /\ io[t] = <<"is_alive", "write", "orphan">>
        /\ io[u] = <<"is_alive", "write", "recv", "recv">>
        /\ result[t].src = "worker"
        /\ result[u].src = "worker"

\* The rule of the class docstring (lines 40-44): the first of base[name],
\* getattr(base, name), next[name], getattr(next, name) that is there, with
\* a CommandContext in the chain looked in by the same rule.
RECURSIVE FirstFound(_, _)
FirstFound(c, name) ==
    LET item(x) == IF x.kind = "context" THEN FirstFound(x, name)
                   ELSE itemgetter(x, name)
        places == <<item(c.base), attrgetter(c.base, name),
                    item(c.next), attrgetter(c.next, name)>>
        found == {k \in DOMAIN places : places[k].raised = "none"}
    IN  IF found = {} THEN Raised("KeyError")
        ELSE places[CHOOSE k \in found : \A m \in found : k <= m]

\* C18: context[name] is the first value found in the order base[name],
\* getattr(base, name), next[name], getattr(next, name), a chained context
\* being searched by the same rule, so what base has hides what next has;
\* KeyError is raised when no place has it, and get(name, default) gives
\* default then and only then.
C18_LookupOrder ==
    context.pc = "done" =>
        LET first == FirstFound(context.self, context.name)
            in_base == {r \in {itemgetter(context.self.base, context.name),
                               attrgetter(context.self.base, context.name)} :
                           r.raised = "none"}
        IN  /\ context.method = "getitem" => context.outcome = first
            /\ context.method = "get" =>
                  context.outcome = IF first.raised = "KeyError"
                                    THEN Found(context.default) ELSE first
            /\ in_base # {} => context.outcome \in in_base
            /\ first.raised \in {"none", "KeyError"}

\* base has the name, and so has the base of the context next in the chain,
\* with another value: the lookup gives the value of base.
C18_Witness ==
    /\ context.pc = "done"
    /\ context.method = "getitem"
    /\ context.self.base.kind = "dict"
    /\ context.self.next.kind = "context"
    /\ context.self.next.base.kind = "object"
    /\ itemgetter(context.self.base, context.name) = Found(1)
    /\ itemgetter(context.self.next, context.name) = Found(2)
    /\ context.outcome = Found(1)

\* The script has sent this command for this job under this namespace.
Sent(command, ns, job) ==
    \E i \in DOMAIN migration.issued :
        /\ migration.issued[i].command = command
        /\ migration.issued[i].ns = ns
        /\ migration.issued[i].job = job

\* The server's status has the job, and not as running.
FoundNotRunning(job) ==
    \E i \in DOMAIN migration.jobs_status :
        /\ migration.jobs_status[i].name = job
        /\ migration.jobs_status[i].status # "running"

\* The server has answered a disable with an error.
DisableFailed ==
    \E i \in DOMAIN migration.issued :
        /\ migration.issued[i].command = "disable"
        /\ migration.issued[i].error

\* C19: 'move' is sent only in a run in which every job of the file was in
\* the server's status and not running, and disable succeeded for every
\* job; with a job running or missing the script ends without having sent
\* anything; with a failed disable it sends enable for the jobs under the
\* old namespace and ends without having stopped cron.
C19_MigrationGuard ==
    /\ (\E j \in Jobs : Sent("move", "new_ns", j)) =>
           /\ \A j \in Jobs :
                 /\ FoundNotRunning(j)
                 /\ \E i \in DOMAIN migration.issued :
                       migration.issued[i] =
                           Command("disable", "old_ns", j, FALSE)
           /\ ~DisableFailed
    /\ migration.pc # "idle" /\ (\E j \in Jobs : ~FoundNotRunning(j)) =>
           /\ migration.issued = <<>>
           /\ migration.cron = "running"
           /\ migration.pc \in {"check", "end"}
    /\ DisableFailed =>
           /\ migration.pc \in {"disable", "recover", "end"}
           /\ migration.cron = "running"
           /\ \A i \in DOMAIN migration.issued :
                 /\ migration.issued[i].command \in {"disable", "enable"}
                 /\ migration.issued[i].ns = "old_ns"
           /\ migration.pc = "end" =>
                 \A j \in Jobs : Sent("enable", "old_ns", j)

\* Every job was in the status and not running, every disable succeeded,
\* the operator said yes, and the jobs have been moved.
C19_Witness ==
    /\ migration.pc = "setup"
    /\ \A j \in Jobs : Sent("move", "new_ns", j)

\* C20: a job is enabled under the new namespace only after 'move' has been
\* sent for it, and a run that has stopped cron has started it again when
\* it ends, also when the operator says no or a command on the server
\* fails.
C20_MigrationCompletion ==
    /\ \A i \in DOMAIN migration.issued :
          migration.issued[i].command = "enable"
              /\ migration.issued[i].ns = "new_ns" =>
                  \E k \in 1..(i - 1) :
                      /\ migration.issued[k].command = "move"
                      /\ migration.issued[k].job = migration.issued[i].job
    /\ migration.pc = "end" =>
          \A i \in DOMAIN migration.issued :
              migration.issued[i] = Ssh("service cron stop", FALSE) =>
                  \E k \in (i + 1)..Len(migration.issued) :
                      migration.issued[k] = Ssh("service cron start", FALSE)

====
